---- MODULE Spec2Model ----
(***************************************************************************)
(* Model of src/elo_predictor.py: the result normalizer (row_to_result),   *)
(* the rating engine (expected_score, update_elo), the rating builder      *)
(* (build_elos) and the probability model (predict_matchup).               *)
(*                                                                         *)
(* Numbers.  The program computes in floating point; the model computes    *)
(* in exact integer arithmetic on two grids:                               *)
(*   - a rating is an integer number of tenths of a rating point           *)
(*     (1500 points = 15000);                                              *)
(*   - a probability is an integer number of 1/ProbOne, ProbOne = 200      *)
(*     (0.5 = 100), and predict_matchup's blend is an integer number of    *)
(*     1/BlendOne, BlendOne = 4000.                                        *)
(* With ProbOne = K * 10 the product K * (result - expected) is a whole    *)
(* number of tenths, so update_elo and the blend are computed without any  *)
(* rounding.  The one rounded quantity is expected_score, which is the     *)
(* value of 1 / (1 + 10 ^ ((elo_b - elo_a) / 400)) rounded to the nearest  *)
(* 1/ProbOne.  Rounding errors of the floating-point unit (of the order    *)
(* of 1e-13 rating points) are below the grid and are not modelled.        *)
(***************************************************************************)
EXTENDS Integers, Sequences, FiniteSets, TLC

VARIABLES
    pc,       \* "loop": inside build_elos' row loop; "raised": build_elos
              \* was left by an exception; "built": build_elos has returned;
              \* "call": a function is being exercised on drawn arguments
    cols,     \* keys of colmap: the table's headers, stripped and lowercased
    nrows,    \* rows of the table consumed so far by the loop
    row,      \* loop variable `row`: the row last taken from df.iterrows()
    parsed,   \* loop variable `parsed`: what row_to_result did on `row`
    elos,     \* the rating store: a function from the teams it holds
    call,     \* arguments of the last call of predict_matchup / update_elo,
              \* or the table build_elos has read from csv_path
    ncalls,   \* how many times that call has been made with these arguments
              \* (a request is made once and repeated once)
    ret       \* what the last call returned

vars == <<pc, cols, nrows, row, parsed, elos, call, ncalls, ret>>

-----------------------------------------------------------------------------
(* Program constants *)

START_ELO == 1500
K == 20
HOME_FIELD_BONUS == 65

-----------------------------------------------------------------------------
(* Bounds of the model *)

\* rows of the historical table
MaxRows == 2

Teams == {"A", "B", "C"}

-----------------------------------------------------------------------------
(* Number grids *)

\* a number of rating points, in tenths
Pts(p) == p * 10

\* the probability 1.0; 0.5 is Half
ProbOne == K * 10
Half == ProbOne \div 2

\* K * p rating points, p a probability: a whole number of tenths
KTimes(p) == (K * Pts(1) * p) \div ProbOne

-----------------------------------------------------------------------------
(* ELO math *)

\* ExpectedSteps[k] is the least difference elo_a - elo_b (in tenths) at which
\* 1 / (1 + 10 ^ ((elo_b - elo_a) / 400)), rounded to the nearest 1/ProbOne,
\* reaches k/ProbOne.  The 200 entries are the exact values of
\*   min { d : ProbOne / (1 + 10 ^ (-d / 4000)) >= k - 1/2 }.
ExpectedSteps ==
  << -10403, -8486, -7590, -6997, -6551, -6194, -5895, -5637, -5410, -5208,
     -5025, -4858, -4704, -4561, -4427, -4302, -4184, -4072, -3966, -3865,
     -3769, -3676, -3588, -3502, -3420, -3341, -3264, -3189, -3117, -3047,
     -2979, -2913, -2848, -2785, -2723, -2663, -2604, -2547, -2490, -2435,
     -2381, -2327, -2275, -2224, -2173, -2123, -2074, -2026, -1978, -1931,
     -1885, -1839, -1794, -1749, -1705, -1662, -1619, -1576, -1534, -1492,
     -1451, -1410, -1369, -1329, -1289, -1249, -1210, -1171, -1132, -1094,
     -1056, -1018, -980, -943, -905, -868, -832, -795, -758, -722,
     -686, -650, -614, -578, -542, -507, -471, -436, -401, -366,
     -331, -296, -261, -226, -191, -156, -121, -86, -52, -17,
     18, 53, 87, 122, 157, 192, 227, 262, 297, 332,
     367, 402, 437, 472, 508, 543, 579, 615, 651, 687,
     723, 759, 796, 833, 869, 906, 944, 981, 1019, 1057,
     1095, 1133, 1172, 1211, 1250, 1290, 1330, 1370, 1411, 1452,
     1493, 1535, 1577, 1620, 1663, 1706, 1750, 1795, 1840, 1886,
     1932, 1979, 2027, 2075, 2124, 2174, 2225, 2276, 2328, 2382,
     2436, 2491, 2548, 2605, 2664, 2724, 2786, 2849, 2914, 2980,
     3048, 3118, 3190, 3265, 3342, 3421, 3503, 3589, 3677, 3770,
     3866, 3967, 4073, 4185, 4303, 4428, 4562, 4705, 4859, 5026,
     5209, 5411, 5638, 5896, 6195, 6552, 6998, 7591, 8487, 10404 >>

\* the largest k in lo..hi with k = 0 or ExpectedSteps[k] <= d, by bisection
\* (ExpectedSteps is increasing)
RECURSIVE last_step(_, _, _)
last_step(d, lo, hi) ==
    IF lo = hi THEN lo
    ELSE LET mid == (lo + hi + 1) \div 2
         IN  IF ExpectedSteps[mid] <= d THEN last_step(d, mid, hi)
             ELSE last_step(d, lo, mid - 1)

\* 1.0 / (1.0 + 10.0 ** ((elo_b - elo_a) / 400.0)), to the nearest 1/ProbOne
expected_score(elo_a, elo_b) == last_step(elo_a - elo_b, 0, ProbOne)

\* result_of with the branch for equal scores left out
result_of_no_tie(score_a, score_b) ==
    IF score_a > score_b THEN ProbOne ELSE 0

\* the result credited to side a: 1.0 for the higher score, 0.0 for the
\* lower, 0.5 for equal scores
result_of(score_a, score_b) ==
    IF score_a > score_b THEN ProbOne
    ELSE IF score_a < score_b THEN 0
    ELSE Half

\* update_elo that rates the first side only
update_elo_winner_only(elo_a, elo_b, score_a, score_b) ==
    LET exp_a    == expected_score(elo_a, elo_b)
        result_a == result_of(score_a, score_b)
    IN  <<elo_a + KTimes(result_a - exp_a), elo_b>>

\* update_elo that rates the second side against the first side's expectation
update_elo_same_expectation(elo_a, elo_b, score_a, score_b) ==
    LET exp_a    == expected_score(elo_a, elo_b)
        result_a == result_of(score_a, score_b)
        result_b == ProbOne - result_a
        new_a    == elo_a + KTimes(result_a - exp_a)
        new_b    == elo_b + KTimes(result_b - exp_a)
    IN  <<new_a, new_b>>

update_elo(elo_a, elo_b, score_a, score_b) ==
    LET exp_a    == expected_score(elo_a, elo_b)
        result_a == result_of(score_a, score_b)
        result_b == ProbOne - result_a
        new_a    == elo_a + KTimes(result_a - exp_a)
        new_b    == elo_b + KTimes(result_b - (ProbOne - exp_a))
    IN  <<new_a, new_b>>

-----------------------------------------------------------------------------
(* Table cells *)

\* A cell of a score column as pandas hands it to as_int: NaN (an empty
\* field), a text that is no number, a float infinity ("inf" in the file), or
\* a finite number, held in tenths (Num(25) is 2.5).
Nan == [kind |-> "nan", v |-> 0]
Txt == [kind |-> "txt", v |-> 0]
Inf == [kind |-> "inf", v |-> 0]
Num(tenths) == [kind |-> "num", v |-> tenths]

ScoreCells == {Nan, Txt, Inf, Num(10), Num(25)}

\* What a call returns: a value, None, or an exception that leaves it
IntOf(i) == [tag |-> "int", val |-> i]
NoneInt == [tag |-> "none", val |-> 0]
RaiseInt == [tag |-> "raise", val |-> 0]

\* pd.to_numeric(x, errors="coerce"): a text that is no number becomes NaN
to_numeric(x) == IF x.kind = "txt" THEN Nan ELSE x

\* int(v): truncation toward zero; int(inf) raises OverflowError
int(x) ==
    IF x.kind = "inf" THEN RaiseInt
    ELSE IF x.v >= 0 THEN IntOf(x.v \div 10)
    ELSE IntOf(-((-x.v) \div 10))

as_int(x) ==
    LET v == to_numeric(x)
    IN  IF v.kind # "nan" THEN int(v) ELSE NoneInt

-----------------------------------------------------------------------------
(* Result normalizer *)

\* str.lower() on the column names the code asks for
Lower ==
    ("Winner/tie" :> "winner/tie") @@ ("Loser/tie" :> "loser/tie") @@
    ("Points_Winner" :> "points_winner") @@ ("Points_Loser" :> "points_loser") @@
    ("PtsW" :> "ptsw") @@ ("PtsL" :> "ptsl") @@
    ("Pts" :> "pts") @@ ("Pts.1" :> "pts.1") @@
    ("home_team" :> "home_team") @@ ("away_team" :> "away_team") @@
    ("home_score" :> "home_score") @@ ("away_score" :> "away_score")

\* has(*names): every name is a key of colmap
has(cs, names) == \A n \in names : Lower[n] \in cs

\* row[col(name)]: the row's cell under the column colmap gives for name
cell(r, name) == r[Lower[name]]

\* the score-column pairs, in the order the loop tries them
ScorePairs ==
    << <<"Points_Winner", "Points_Loser">>, <<"PtsW", "PtsL">>, <<"Pts", "Pts.1">> >>

\* What row_to_result does: it returns an Outcome, returns None, or is left
\* by an exception
Outcome(w, l, sw, sl) ==
    [tag |-> "outcome", winner |-> w, loser |-> l, sw |-> sw, sl |-> sl]
NoneResult == [tag |-> "none", winner |-> "", loser |-> "", sw |-> 0, sl |-> 0]
RaiseResult == [tag |-> "raise", winner |-> "", loser |-> "", sw |-> 0, sl |-> 0]

\* the loop over the score pairs, from pair i on
RECURSIVE try_pairs(_, _, _, _, _)
try_pairs(cs, r, winner, loser, i) ==
    IF i > Len(ScorePairs) THEN Outcome(winner, loser, 1, 0)
    ELSE LET wcol == ScorePairs[i][1]
             lcol == ScorePairs[i][2]
         IN  IF has(cs, {wcol, lcol})
             THEN LET sw == as_int(cell(r, wcol))
                      sl == as_int(cell(r, lcol))
                  IN  IF sw.tag = "raise" \/ sl.tag = "raise" THEN RaiseResult
                      ELSE IF sw.tag = "int" /\ sl.tag = "int"
                           THEN Outcome(winner, loser, sw.val, sl.val)
                           ELSE try_pairs(cs, r, winner, loser, i + 1)
             ELSE try_pairs(cs, r, winner, loser, i + 1)

\* Case A: PFR-style with Winner/Loser
case_a(cs, r) ==
    try_pairs(cs, r, cell(r, "Winner/tie"), cell(r, "Loser/tie"), 1)

\* Case B: home/away with explicit scores
case_b(cs, r) ==
    LET home == cell(r, "home_team")
        away == cell(r, "away_team")
        hs   == IF has(cs, {"home_score"}) THEN as_int(cell(r, "home_score")) ELSE NoneInt
        as_  == IF has(cs, {"away_score"}) THEN as_int(cell(r, "away_score")) ELSE NoneInt
    IN  IF hs.tag = "raise" \/ as_.tag = "raise" THEN RaiseResult
        ELSE IF hs.tag = "none" \/ as_.tag = "none" THEN NoneResult
        ELSE IF hs.val > as_.val THEN Outcome(home, away, hs.val, as_.val)
        ELSE IF as_.val > hs.val THEN Outcome(away, home, as_.val, hs.val)
        ELSE Outcome(home, away, hs.val, as_.val)

\* row_to_result with the two cases tried in the other order
row_to_result_home_first(cs, r) ==
    IF has(cs, {"home_team", "away_team"}) THEN case_b(cs, r)
    ELSE IF has(cs, {"Winner/tie", "Loser/tie"}) THEN case_a(cs, r)
    ELSE NoneResult

row_to_result(cs, r) ==
    IF has(cs, {"Winner/tie", "Loser/tie"}) THEN case_a(cs, r)
    ELSE IF has(cs, {"home_team", "away_team"}) THEN case_b(cs, r)
    ELSE NoneResult

-----------------------------------------------------------------------------
(* Rating builder *)

\* elos[team] = START_ELO in place of setdefault: a stored rating is reset
setdefault_overwrite(e, team) ==
    [t \in DOMAIN e \cup {team} |-> IF t = team THEN Pts(START_ELO) ELSE e[t]]

\* elos.setdefault(team, START_ELO)
setdefault(e, team) ==
    IF team \in DOMAIN e THEN e ELSE e @@ (team :> Pts(START_ELO))

\* One pass of the loop body on an accepted Outcome: both teams are put in
\* the store, then the pair of new ratings is assigned, winner first
apply_outcome(e, res) ==
    LET e1 == setdefault(e, res.winner)
        e2 == setdefault(e1, res.loser)
        u  == update_elo(e2[res.winner], e2[res.loser], res.sw, res.sl)
        e3 == [e2 EXCEPT ![res.winner] = u[1]]
    IN  [e3 EXCEPT ![res.loser] = u[2]]

-----------------------------------------------------------------------------
(* Team stats + prediction *)

\* home_team = None (app.py passes the text "None" for no designation)
NoHome == "None"

\* elos.get(team, START_ELO)
get(e, team) == IF team \in DOMAIN e THEN e[team] ELSE Pts(START_ELO)

\* effective_elos with the bonus given to the side that is not designated
effective_elos_swapped(team_home, team_away, e, home_team) ==
    LET elo_home == get(e, team_home)
        elo_away == get(e, team_away)
    IN  IF home_team = team_home THEN <<elo_home, elo_away + Pts(HOME_FIELD_BONUS)>>
        ELSE IF home_team = team_away THEN <<elo_home + Pts(HOME_FIELD_BONUS), elo_away>>
        ELSE <<elo_home, elo_away>>

\* the two effective ratings <<elo_home, elo_away>>
effective_elos(team_home, team_away, e, home_team) ==
    LET elo_home == get(e, team_home)
        elo_away == get(e, team_away)
    IN  IF home_team = team_home THEN <<elo_home + Pts(HOME_FIELD_BONUS), elo_away>>
        ELSE IF home_team = team_away THEN <<elo_home, elo_away + Pts(HOME_FIELD_BONUS)>>
        ELSE <<elo_home, elo_away>>

\* s_home is not None and s_away is not None
have_stats(team_home, team_away, stats) ==
    team_home \in DOMAIN stats /\ team_away \in DOMAIN stats

\* the value the two factors keep when either team has no statistics
default_factor == Half

\* point_diff_factor starting from 0.0 in place of 0.5
point_diff_factor_from_zero(team_home, team_away, stats) ==
    IF have_stats(team_home, team_away, stats)
    THEN (ProbOne * (stats[team_home].Point_Diff - stats[team_away].Point_Diff)) \div 200
    ELSE 0

\* (pd_home - pd_away) / 200.0 + 0.5, in 1/ProbOne
point_diff_factor(team_home, team_away, stats) ==
    IF have_stats(team_home, team_away, stats)
    THEN LET pd_home == stats[team_home].Point_Diff
             pd_away == stats[team_away].Point_Diff
         IN  (ProbOne * (pd_home - pd_away)) \div 200 + Half
    ELSE default_factor

\* (to_home - to_away) / 50.0 + 0.5 with to_x = -Turnovers, in 1/ProbOne
turnover_factor(team_home, team_away, stats) ==
    IF have_stats(team_home, team_away, stats)
    THEN LET to_home == -stats[team_home].Turnovers
             to_away == -stats[team_away].Turnovers
         IN  (ProbOne * (to_home - to_away)) \div 50 + Half
    ELSE default_factor

\* the blend is counted in 1/BlendOne: its weights 0.6, 0.25 and 0.15 are
\* 12, 5 and 3 twentieths
BlendOne == 20 * ProbOne

\* 0.6 * elo_prob_home + 0.25 * point_diff_factor + 0.15 * turnover_factor
blend(elo_prob_home, pdf, tf) == 12 * elo_prob_home + 5 * pdf + 3 * tf

\* the blend returned without np.clip
clip_off(x, lo, hi) == x

\* np.clip(x, lo, hi)
clip(x, lo, hi) == IF x < lo THEN lo ELSE IF x > hi THEN hi ELSE x

\* the blend before np.clip
raw_prob(team_home, team_away, e, stats, home_team) ==
    LET eff == effective_elos(team_home, team_away, e, home_team)
    IN  blend(expected_score(eff[1], eff[2]),
              point_diff_factor(team_home, team_away, stats),
              turnover_factor(team_home, team_away, stats))

\* the store had predict_matchup used setdefault in place of get
store_after_predict_setdefault(team_home, team_away, e) ==
    setdefault(setdefault(e, team_home), team_away)

\* the store as predict_matchup leaves it: it only reads it, with elos.get
store_after_predict(team_home, team_away, e) == e

\* predict_matchup: the dictionary it returns (elo_prob_home in 1/ProbOne,
\* final_prob in 1/BlendOne) and the store as the call leaves it
predict_matchup(team_home, team_away, e, stats, home_team) ==
    LET eff == effective_elos(team_home, team_away, e, home_team)
        elo_prob_home == expected_score(eff[1], eff[2])
        final_prob_home ==
            clip(raw_prob(team_home, team_away, e, stats, home_team), 0, BlendOne)
    IN  [ret  |-> [team_home |-> team_home, team_away |-> team_away,
                   elo_prob_home |-> elo_prob_home, final_prob |-> final_prob_home],
         elos |-> store_after_predict(team_home, team_away, e)]

-----------------------------------------------------------------------------
(* Inputs *)

WLCols == {"winner/tie", "loser/tie"}
HACols == {"home_team", "away_team"}
HAScoreCols == {"home_score", "away_score"}
Pair1Cols == {"points_winner", "points_loser"}
Pair2Cols == {"ptsw", "ptsl"}
Pair3Cols == {"pts", "pts.1"}
NameCols == WLCols \cup HACols
ScoreCols == Pair1Cols \cup Pair2Cols \cup Pair3Cols \cup HAScoreCols

\* the tables build_elos is run on: the column sets of its docstring, the
\* Home/Away family with a score column missing, and a table of neither family
Schemas ==
    { WLCols,
      WLCols \cup Pair3Cols,
      HACols \cup HAScoreCols,
      HACols \cup {"home_score"},
      HACols,
      {"pts"} }

\* the tables row_to_result alone is run on: every choice of score pairs for a
\* Winner/Loser table, a pair with one column missing, and the tables that
\* match both families
RowSchemas ==
    { WLCols \cup p1 \cup p2 \cup p3 :
        p1 \in {{}, Pair1Cols}, p2 \in {{}, Pair2Cols}, p3 \in {{}, Pair3Cols} }
    \cup { WLCols \cup Pair1Cols \cup {"pts"} }
    \cup { WLCols \cup HACols \cup HAScoreCols \cup p3 : p3 \in {{}, Pair3Cols} }
    \cup { HACols \cup HAScoreCols }

\* the rows of a table with columns cs whose names are drawn from ts
RowsOf(cs, ts) ==
    { names @@ scores :
        names \in [cs \cap NameCols -> ts],
        scores \in [cs \cap ScoreCols -> ScoreCells] }

\* season statistics: a table indexed by team, with the two columns
\* predict_matchup reads
Stat(pd, to) == [Point_Diff |-> pd, Turnovers |-> to]
NoStats == [t \in {} |-> Stat(0, 0)]
StatTables ==
    { NoStats,
      ("A" :> Stat(40, 12)),
      ("A" :> Stat(40, 12)) @@ ("B" :> Stat(-25, 18)),
      ("A" :> Stat(310, 2)) @@ ("B" :> Stat(-290, 41)) }

\* the tables a prediction on a built store is given: the season's table, or
\* none when it could not be fetched
SeasonTables == {NoStats, ("A" :> Stat(40, 12)) @@ ("B" :> Stat(-25, 18))}

\* the statistics tables drawn in control state p
TablesFor(p) == IF p = "built" THEN SeasonTables ELSE StatTables

HomeChoices == Teams \cup {NoHome}

\* stores handed to predict_matchup directly, ratings in tenths
SampleElos == {Pts(1200), Pts(1500), 15104, Pts(1800)}
SampleStores == UNION { [ts -> SampleElos] : ts \in SUBSET Teams }

\* arguments handed to update_elo directly
SampleRatings == {Pts(1300), 14896, Pts(1500), 15017, 15104, Pts(1565), Pts(1900)}
SampleScores == {0, 1, 24}

NoRow == [c \in {} |-> Nan]
NoCall == [fn |-> "none"]
NoRet == [fn |-> "none"]

-----------------------------------------------------------------------------
(* build_elos followed by predictions on the store it returns *)

Init ==
    /\ pc = "loop"
    /\ cols \in Schemas
    /\ nrows = 0
    /\ row = NoRow
    /\ parsed = NoneResult
    /\ elos = [t \in {} |-> 0]
    /\ call = NoCall
    /\ ncalls = 0
    /\ ret = NoRet

\* the store and the control state after the loop body has run on result res
after_row(e, res) ==
    IF res.tag = "outcome" THEN [pc |-> "loop", elos |-> apply_outcome(e, res)]
    ELSE IF res.tag = "none" THEN [pc |-> "loop", elos |-> e]
    ELSE [pc |-> "raised", elos |-> e]

\* one iteration of `for _, row in df.iterrows()`
IngestRow ==
    /\ pc = "loop"
    /\ nrows < MaxRows
    /\ \E r \in RowsOf(cols, Teams) :
         LET res == row_to_result(cols, r)
             nxt == after_row(elos, res)
         IN  /\ row' = r
             /\ parsed' = res
             /\ pc' = nxt.pc
             /\ elos' = nxt.elos
    /\ nrows' = nrows + 1
    /\ UNCHANGED <<cols, call, ncalls, ret>>

\* the table is exhausted: `return elos`
Return ==
    /\ pc = "loop"
    /\ pc' = "built"
    /\ cols' = {}
    /\ nrows' = 0
    /\ row' = NoRow
    /\ parsed' = NoneResult
    /\ UNCHANGED <<elos, call, ncalls, ret>>

\* the effect of predict_matchup called with the arguments c on the store
predict_call(c) ==
    LET out == predict_matchup(c.team_home, c.team_away, elos, c.stats, c.home_team)
    IN  /\ ret' = out.ret
        /\ elos' = out.elos

\* a prediction request: predict_matchup is called on the store
Predict ==
    /\ pc \in {"built", "call"}
    /\ call.fn = "none"
    /\ \E th \in Teams, ta \in Teams, st \in TablesFor(pc), h \in HomeChoices :
         LET c == [fn |-> "predict_matchup", team_home |-> th, team_away |-> ta,
                   stats |-> st, home_team |-> h]
         IN  /\ call' = c
             /\ predict_call(c)
    /\ ncalls' = 1
    /\ UNCHANGED <<pc, cols, nrows, row, parsed>>

\* the same request again: a second call with identical arguments
PredictAgain ==
    /\ pc \in {"built", "call"}
    /\ call.fn = "predict_matchup"
    /\ ncalls = 1
    /\ predict_call(call)
    /\ ncalls' = ncalls + 1
    /\ UNCHANGED <<pc, cols, nrows, row, parsed, call>>

Next == IngestRow \/ Return \/ Predict \/ PredictAgain

Spec == Init /\ [][Next]_vars

-----------------------------------------------------------------------------
(* row_to_result on a drawn table and row *)

InitRow ==
    /\ pc = "call"
    /\ cols \in RowSchemas
    /\ row \in RowsOf(cols, {"A", "B"})
    /\ nrows = 0
    /\ parsed = NoneResult
    /\ elos = [t \in {} |-> 0]
    /\ call = NoCall
    /\ ncalls = 0
    /\ ret = NoRet

Normalize ==
    /\ pc = "call"
    /\ nrows = 0
    /\ nrows' = 1
    /\ parsed' = row_to_result(cols, row)
    /\ UNCHANGED <<pc, cols, row, elos, call, ncalls, ret>>

NextRow == Normalize

SpecRow == InitRow /\ [][NextRow]_vars

-----------------------------------------------------------------------------
(* predict_matchup on a drawn store *)

InitPredict ==
    /\ pc = "call"
    /\ cols = {}
    /\ nrows = 0
    /\ row = NoRow
    /\ parsed = NoneResult
    /\ elos \in SampleStores
    /\ call = NoCall
    /\ ncalls = 0
    /\ ret = NoRet

NextPredict == Predict \/ PredictAgain

SpecPredict == InitPredict /\ [][NextPredict]_vars

-----------------------------------------------------------------------------
(* update_elo on drawn ratings and scores *)

InitElo ==
    /\ pc = "call"
    /\ cols = {}
    /\ nrows = 0
    /\ row = NoRow
    /\ parsed = NoneResult
    /\ elos = [t \in {} |-> 0]
    /\ call = NoCall
    /\ ncalls = 0
    /\ ret = NoRet

UpdateElo ==
    /\ pc = "call"
    /\ \E a \in SampleRatings, b \in SampleRatings,
          sa \in SampleScores, sb \in SampleScores :
         /\ call' = [fn |-> "update_elo", elo_a |-> a, elo_b |-> b,
                     score_a |-> sa, score_b |-> sb]
         /\ ret' = update_elo(a, b, sa, sb)
    /\ ncalls' = 1
    /\ UNCHANGED <<pc, cols, nrows, row, parsed, elos>>

NextElo == UpdateElo

SpecElo == InitElo /\ [][NextElo]_vars

-----------------------------------------------------------------------------
(* build_elos on a whole table read in advance *)

\* the score cells of the tables that are folded whole: both empty, a tie,
\* and a win of the first side
FoldScores == {<<Nan, Nan>>, <<Num(10), Num(10)>>, <<Num(25), Num(10)>>}

\* the tables that are folded whole: one of each family, with its scores
FoldSchemas == {WLCols \cup Pair3Cols, HACols \cup HAScoreCols}

\* the rows of such a table
FoldRows(cs) ==
    { r \in RowsOf(cs, Teams) :
        IF WLCols \subseteq cs THEN <<r["pts"], r["pts.1"]>> \in FoldScores
        ELSE <<r["home_score"], r["away_score"]>> \in FoldScores }

\* df: the rows of the file, at most MaxRows of them
Tables(cs) == UNION { [1..n -> FoldRows(cs)] : n \in 0..MaxRows }

\* iterrows() that yields the rows from the last to the first
next_row_reversed(table, n) == table[Len(table) - n]

\* the row df.iterrows() yields after n rows
next_row(table, n) == table[n + 1]

InitFold ==
    /\ pc = "loop"
    /\ cols \in FoldSchemas
    /\ \E t \in Tables(cols) : call = [fn |-> "build_elos", table |-> t]
    /\ nrows = 0
    /\ row = NoRow
    /\ parsed = NoneResult
    /\ elos = [t \in {} |-> 0]
    /\ ncalls = 0
    /\ ret = NoRet

\* one iteration of `for _, row in df.iterrows()` on the table read
IngestNext ==
    /\ pc = "loop"
    /\ nrows < Len(call.table)
    /\ LET r   == next_row(call.table, nrows)
           res == row_to_result(cols, r)
           nxt == after_row(elos, res)
       IN  /\ row' = r
           /\ parsed' = res
           /\ pc' = nxt.pc
           /\ elos' = nxt.elos
    /\ nrows' = nrows + 1
    /\ UNCHANGED <<cols, call, ncalls, ret>>

\* the table is exhausted: `return elos`
ReturnElos ==
    /\ pc = "loop"
    /\ nrows = Len(call.table)
    /\ pc' = "built"
    /\ UNCHANGED <<cols, nrows, row, parsed, elos, call, ncalls, ret>>

NextFold == IngestNext \/ ReturnElos

SpecFold == InitFold /\ [][NextFold]_vars

-----------------------------------------------------------------------------
(* Claims *)

\* the step is one iteration of build_elos' loop
IngestStep == pc = "loop" /\ nrows' = nrows + 1

\* the step is a call of predict_matchup
PredictStep == call'.fn = "predict_matchup" /\ ncalls' # ncalls

\* r without the columns outside cs
Restrict(r, cs) == [c \in cs |-> r[c]]

\* pair i of ScorePairs is in the table and both its cells in the row are
\* finite numbers
Supplies(i) ==
    /\ has(cols, {ScorePairs[i][1], ScorePairs[i][2]})
    /\ cell(row, ScorePairs[i][1]).kind = "num"
    /\ cell(row, ScorePairs[i][2]).kind = "num"

FirstSupplying == CHOOSE i \in 1..3 : Supplies(i) /\ \A j \in 1..(i - 1) : ~Supplies(j)

\* C1: for a table with the Winner/tie and Loser/tie columns, when some score
\* pair supplies both scores of the row, row_to_result returns the winner, the
\* loser and the two scores of the first such pair in the order
\* (Points_Winner, Points_Loser), (PtsW, PtsL), (Pts, Pts.1).
C1_FirstPairWins ==
    (nrows = 1 /\ WLCols \subseteq cols /\ \E i \in 1..3 : Supplies(i)) =>
        parsed = Outcome(row["winner/tie"], row["loser/tie"],
                         as_int(cell(row, ScorePairs[FirstSupplying][1])).val,
                         as_int(cell(row, ScorePairs[FirstSupplying][2])).val)

\* C1, for the rows on which row_to_result returns: the Outcome is that of the
\* first supplying pair.
C1_FirstPairWinsIfReturns ==
    (nrows = 1 /\ parsed.tag # "raise") => C1_FirstPairWins

\* a Home/Away score of the row is missing (no such column, or an empty
\* cell) or is a text that is no number
ScoreMissing(cs, r) ==
    \E c \in HAScoreCols : c \notin cs \/ r[c].kind \in {"nan", "txt"}

\* C2: a Home/Away-family row whose home score or away score is missing or
\* unparseable is rejected: the loop body leaves the store as it was, raises
\* nothing and the loop goes on.
C2_MissingScoreRejected ==
    [][(IngestStep /\ ~(WLCols \subseteq cols) /\ HACols \subseteq cols
            /\ ScoreMissing(cols, row'))
        => (parsed' = NoneResult /\ elos' = elos /\ pc' = "loop")]_vars

\* C2, for the rows none of whose score cells is infinite.
C2_MissingScoreRejectedIfFinite ==
    [][(IngestStep /\ ~(WLCols \subseteq cols) /\ HACols \subseteq cols
            /\ ScoreMissing(cols, row')
            /\ \A c \in cols \cap HAScoreCols : row'[c].kind # "inf")
        => (parsed' = NoneResult /\ elos' = elos /\ pc' = "loop")]_vars

\* the last call of predict_matchup, made again with no home designation
Neutral ==
    predict_matchup(call.team_home, call.team_away, elos, call.stats, NoHome).ret

\* the blend of the last call before np.clip, and that of the neutral call
RawOfCall ==
    raw_prob(call.team_home, call.team_away, elos, call.stats, call.home_team)
RawNeutral == raw_prob(call.team_home, call.team_away, elos, call.stats, NoHome)

\* C3: whatever the stored ratings, the season statistics and the home
\* designation, predict_matchup returns a final_prob in [0, 1].
C3_FinalProbInUnitInterval ==
    call.fn = "predict_matchup" =>
        /\ 0 <= ret.final_prob
        /\ ret.final_prob <= BlendOne

\* a call whose blend is above 1 before the clip
C3_Witness ==
    /\ call.fn = "predict_matchup"
    /\ RawOfCall > BlendOne
    /\ ret.final_prob = BlendOne

\* C4: a call of predict_matchup leaves the rating store as it was, and a
\* second call with identical arguments returns what the first returned.
C4_PredictReadsOnly ==
    [][PredictStep => (elos' = elos /\ (ncalls = 1 => ret' = ret))]_vars

\* a request naming a team absent from the store, designated as home, has
\* been made twice
C4_Witness ==
    /\ call.fn = "predict_matchup"
    /\ ncalls = 2
    /\ call.team_home \notin DOMAIN elos
    /\ call.home_team = call.team_home

\* C5 as claimed: every team referenced by an accepted Outcome or by a
\* prediction request is in the store.
C5_EveryReferencedTeamStored ==
    /\ parsed.tag = "outcome" => {parsed.winner, parsed.loser} \subseteq DOMAIN elos
    /\ call.fn = "predict_matchup" =>
           {call.team_home, call.team_away} \subseteq DOMAIN elos

\* C5 as amended: no step removes a team from the store; an accepted Outcome
\* leaves its two teams in the store, rated as update_elo rates them from
\* their stored ratings, or from 1500 for a team not yet stored; a prediction
\* request inserts nothing.
C5_OutcomeTeamsStored ==
    [][/\ DOMAIN elos \subseteq DOMAIN elos'
       /\ (IngestStep /\ parsed'.tag = "outcome") =>
            LET w == parsed'.winner
                l == parsed'.loser
                u == update_elo(get(elos, w), get(elos, l), parsed'.sw, parsed'.sl)
            IN  /\ {w, l} \subseteq DOMAIN elos'
                /\ elos'[l] = u[2]
                /\ w # l => elos'[w] = u[1]
       /\ PredictStep => DOMAIN elos' = DOMAIN elos]_vars

\* rows were ingested, and a prediction was then requested for a team that no
\* accepted Outcome had referenced
C5_Witness ==
    /\ pc = "built"
    /\ DOMAIN elos # {}
    /\ \E t \in DOMAIN elos : elos[t] # Pts(START_ELO)
    /\ call.fn = "predict_matchup"
    /\ call.team_home \notin DOMAIN elos

\* the last call designates one of its two distinct teams as home
HomeIsHome == call.fn = "predict_matchup" /\ call.team_home # call.team_away
                  /\ call.home_team = call.team_home
HomeIsAway == call.fn = "predict_matchup" /\ call.team_home # call.team_away
                  /\ call.home_team = call.team_away

\* C6 as claimed: designating a team as home gives it a strictly greater win
\* probability than the same call with no designation.
C6_HomeStrictlyGreater ==
    /\ HomeIsHome => ret.final_prob > Neutral.final_prob
    /\ HomeIsAway => BlendOne - ret.final_prob > BlendOne - Neutral.final_prob

\* C6 as amended: the designated team's win probability is never smaller than
\* in the neutral call, and is strictly greater unless np.clip brings both
\* calls to the same bound.
C6_HomeNeverSmaller ==
    /\ HomeIsHome =>
         /\ ret.final_prob >= Neutral.final_prob
         /\ (RawNeutral < BlendOne /\ RawOfCall > 0) =>
                ret.final_prob > Neutral.final_prob
    /\ HomeIsAway =>
         /\ BlendOne - ret.final_prob >= BlendOne - Neutral.final_prob
         /\ (RawNeutral > 0 /\ RawOfCall < BlendOne) =>
                BlendOne - ret.final_prob > BlendOne - Neutral.final_prob

\* a home designation, with statistics for both teams, that raised the
\* probability
C6_Witness ==
    /\ HomeIsHome
    /\ have_stats(call.team_home, call.team_away, call.stats)
    /\ ret.final_prob > Neutral.final_prob
    /\ ret.final_prob < BlendOne

\* C7: when the statistics of either team are unavailable both factors are
\* 0.5 and final_prob = clip(0.6 * elo_prob_home + 0.2, 0, 1); with both
\* ratings 1500 and no home designation it is 0.5, and with elo_prob_home
\* above 0.5 it lies strictly between 0.5 and elo_prob_home.
C7_DefaultedBlend ==
    (call.fn = "predict_matchup"
        /\ ~have_stats(call.team_home, call.team_away, call.stats)) =>
        /\ point_diff_factor(call.team_home, call.team_away, call.stats) = Half
        /\ turnover_factor(call.team_home, call.team_away, call.stats) = Half
        /\ ret.final_prob = clip(12 * ret.elo_prob_home + BlendOne \div 5, 0, BlendOne)
        /\ (/\ get(elos, call.team_home) = Pts(START_ELO)
            /\ get(elos, call.team_away) = Pts(START_ELO)
            /\ call.home_team \notin {call.team_home, call.team_away})
           => ret.final_prob = BlendOne \div 2
        /\ ret.elo_prob_home > Half =>
              /\ ret.final_prob > BlendOne \div 2
              /\ ret.final_prob * ProbOne < ret.elo_prob_home * BlendOne

\* statistics of one team only, and a rating component above 0.5
C7_Witness ==
    /\ call.fn = "predict_matchup"
    /\ DOMAIN call.stats # {}
    /\ ~have_stats(call.team_home, call.team_away, call.stats)
    /\ ret.elo_prob_home > Half

\* C8: in a table with no score columns a row naming winner A and loser B is
\* the Outcome (A, B, 1, 0), and with A and B both at 1500 or unseen the loop
\* body leaves A at 1510 and B at 1490.
C8_WinWithoutMargin ==
    [][(IngestStep /\ WLCols \subseteq cols /\ cols \cap ScoreCols = {}
            /\ row'["winner/tie"] # row'["loser/tie"])
        => LET w == row'["winner/tie"]
               l == row'["loser/tie"]
           IN  /\ parsed' = Outcome(w, l, 1, 0)
               /\ (get(elos, w) = Pts(START_ELO) /\ get(elos, l) = Pts(START_ELO)) =>
                     /\ elos'[w] = Pts(1510)
                     /\ elos'[l] = Pts(1490)
                     /\ elos'[w] - get(elos, w) = KTimes(ProbOne - Half)]_vars

\* the row (A, B) of a table without score columns has been ingested into
\* the empty store
C8_Witness ==
    /\ pc = "loop"
    /\ nrows = 1
    /\ cols = WLCols
    /\ parsed = Outcome("A", "B", 1, 0)
    /\ elos = ("A" :> Pts(1510)) @@ ("B" :> Pts(1490))

\* the table matches both schema families
BothFamilies == WLCols \cup HACols \cup HAScoreCols \subseteq cols

\* C9: on a table matching both families a row is normalized as the same row
\* of the table without the Home/Away columns is, and an Outcome names the
\* Winner/tie and Loser/tie cells.
C9_WinnerLoserFirst ==
    (nrows = 1 /\ BothFamilies) =>
        LET wl == cols \ (HACols \cup HAScoreCols)
        IN  /\ parsed = row_to_result(wl, Restrict(row, wl))
            /\ parsed.tag = "outcome" =>
                  /\ parsed.winner = row["winner/tie"]
                  /\ parsed.loser = row["loser/tie"]

\* a row of such a table was accepted although the Home/Away rules reject it,
\* its home score being empty
C9_Witness ==
    /\ nrows = 1
    /\ BothFamilies
    /\ row["home_score"] = Nan
    /\ row["home_team"] # row["winner/tie"]
    /\ parsed.tag = "outcome"

\* C10: with equal scores update_elo gives each team the same new rating
\* whichever side it is passed on, and leaves equal ratings unchanged.
C10_TieSymmetric ==
    (call.fn = "update_elo" /\ call.score_a = call.score_b) =>
        LET swapped == update_elo(call.elo_b, call.elo_a, call.score_b, call.score_a)
        IN  /\ ret = <<swapped[2], swapped[1]>>
            /\ call.elo_a = call.elo_b => ret = <<call.elo_a, call.elo_b>>

\* a tie between unequal ratings, which moved both
C10_Witness ==
    /\ call.fn = "update_elo"
    /\ call.score_a = call.score_b
    /\ call.elo_a > call.elo_b
    /\ ret[1] < call.elo_a
    /\ ret[2] > call.elo_b

\* the stored rating of a side of the last call, 1500 for a team the store
\* does not hold
StoredHome ==
    IF call.team_home \in DOMAIN elos THEN elos[call.team_home] ELSE Pts(START_ELO)
StoredAway ==
    IF call.team_away \in DOMAIN elos THEN elos[call.team_away] ELSE Pts(START_ELO)

\* the effective ratings of the last call
EffectiveOfCall ==
    effective_elos(call.team_home, call.team_away, elos, call.home_team)

\* the 65 points on a side that is the home designation, nothing otherwise
BonusIfDesignated(team) ==
    IF call.home_team = team THEN Pts(HOME_FIELD_BONUS) ELSE 0

\* C11: in a call of predict_matchup the 65 points are added to the effective
\* rating of exactly the side whose identifier is the home designation and to
\* no other side; with no designation, or one that is neither side, both
\* effective ratings are the stored ratings (1500 for a team the store does
\* not hold) and elo_prob_home is the expected score of the stored ratings.
C11_BonusToDesignatedSides ==
    call.fn = "predict_matchup" =>
        /\ EffectiveOfCall = <<StoredHome + BonusIfDesignated(call.team_home),
                               StoredAway + BonusIfDesignated(call.team_away)>>
        /\ ret.elo_prob_home =
               expected_score(StoredHome + BonusIfDesignated(call.team_home),
                              StoredAway + BonusIfDesignated(call.team_away))
        /\ call.home_team \notin {call.team_home, call.team_away} =>
               ret.elo_prob_home = expected_score(StoredHome, StoredAway)

\* C11, for the calls whose two sides are different teams.
C11_BonusToDesignatedSidesIfDistinct ==
    (call.fn = "predict_matchup" /\ call.team_home # call.team_away) =>
        C11_BonusToDesignatedSides

\* a call that designates a third team, one side of it absent from the store
\* and the two stored ratings unequal
C11_NeitherSide ==
    /\ call.fn = "predict_matchup"
    /\ call.team_home # call.team_away
    /\ call.home_team \in Teams \ {call.team_home, call.team_away}
    /\ call.team_home \notin DOMAIN elos
    /\ call.team_away \in DOMAIN elos
    /\ StoredAway # Pts(START_ELO)
    /\ ret.elo_prob_home = expected_score(Pts(START_ELO), StoredAway)
    /\ ret.elo_prob_home # Half

\* what row_to_result makes of row i of table
ResultOfRow(cs, table, i) == row_to_result(cs, table[i])

\* the rating of team once the first n rows of table have been applied in
\* table order, each accepted row rating its two teams from the ratings left
\* by the rows before it; 1500 for a team no accepted row has named
RECURSIVE RatingAfter(_, _, _, _)
RatingAfter(cs, table, n, team) ==
    IF n = 0 THEN Pts(START_ELO)
    ELSE LET res == ResultOfRow(cs, table, n)
         IN  IF res.tag # "outcome" \/ team \notin {res.winner, res.loser}
             THEN RatingAfter(cs, table, n - 1, team)
             ELSE LET u == update_elo(RatingAfter(cs, table, n - 1, res.winner),
                                      RatingAfter(cs, table, n - 1, res.loser),
                                      res.sw, res.sl)
                  IN  IF team = res.loser THEN u[2] ELSE u[1]

\* the teams named by the accepted rows among the first n of table
TeamsAfter(cs, table, n) ==
    UNION { {ResultOfRow(cs, table, i).winner, ResultOfRow(cs, table, i).loser} :
              i \in { j \in 1..n : ResultOfRow(cs, table, j).tag = "outcome" } }

\* table is two accepted, decided games between different teams that share
\* exactly one team
TwoGamesSharingATeam(cs, table) ==
    /\ Len(table) = 2
    /\ \A i \in 1..2 :
         LET res == ResultOfRow(cs, table, i)
         IN  res.tag = "outcome" /\ res.winner # res.loser /\ res.sw # res.sl
    /\ Cardinality({ResultOfRow(cs, table, 1).winner, ResultOfRow(cs, table, 1).loser}
           \cap {ResultOfRow(cs, table, 2).winner, ResultOfRow(cs, table, 2).loser}) = 1

\* the two rows of table in the other order
Swapped(table) == <<table[2], table[1]>>

\* C12: build_elos takes the rows in table order, one at a time, each accepted
\* row rating its teams from the ratings all rows before it have left, so the
\* store after n rows is determined by the first n rows in their order; and
\* the order matters: two decided games that share one team leave a store
\* other than the one the same two rows leave in the other order.
C12_FoldInTableOrder ==
    call.fn = "build_elos" =>
        /\ nrows >= 1 => row = call.table[nrows]
        /\ DOMAIN elos = TeamsAfter(cols, call.table, nrows)
        /\ \A t \in DOMAIN elos : elos[t] = RatingAfter(cols, call.table, nrows, t)
        /\ (pc = "built" /\ TwoGamesSharingATeam(cols, call.table)) =>
              \E t \in DOMAIN elos :
                  elos[t] # RatingAfter(cols, Swapped(call.table), 2, t)

\* A has beaten B, then C: B is left with 1490.0 and C with 1490.3, where the
\* other order leaves B with 1490.3 and C with 1490.0
C12_Witness ==
    /\ call.fn = "build_elos"
    /\ pc = "built"
    /\ TwoGamesSharingATeam(cols, call.table)
    /\ WLCols \subseteq cols
    /\ call.table[1]["winner/tie"] = "A" /\ call.table[1]["loser/tie"] = "B"
    /\ call.table[2]["winner/tie"] = "A" /\ call.table[2]["loser/tie"] = "C"
    /\ elos["B"] = Pts(1490) /\ elos["C"] = Pts(1490) + 3
    /\ RatingAfter(cols, Swapped(call.table), 2, "B") = Pts(1490) + 3
    /\ RatingAfter(cols, Swapped(call.table), 2, "C") = Pts(1490)

\* the sum of the ratings e holds for the teams ts
RECURSIVE SumOver(_, _)
SumOver(e, ts) ==
    IF ts = {} THEN 0
    ELSE LET t == CHOOSE x \in ts : TRUE
         IN  e[t] + SumOver(e, ts \ {t})

\* every accepted row among the first n of table is between two different
\* teams
DistinctSides(cs, table, n) ==
    \A i \in 1..n :
        ResultOfRow(cs, table, i).tag = "outcome" =>
            ResultOfRow(cs, table, i).winner # ResultOfRow(cs, table, i).loser

\* C13: an accepted row between two different teams changes their two ratings
\* by equal and opposite amounts, and after any rows whose accepted Outcomes
\* are each between two different teams the ratings in the store sum to 1500
\* times the number of teams in the store.
C13_ZeroSum ==
    (call.fn = "build_elos" /\ DistinctSides(cols, call.table, nrows)) =>
        /\ SumOver(elos, DOMAIN elos) = Pts(START_ELO) * Cardinality(DOMAIN elos)
        /\ (nrows >= 1 /\ parsed.tag = "outcome") =>
              elos[parsed.winner]
                    - RatingAfter(cols, call.table, nrows - 1, parsed.winner)
                = - (elos[parsed.loser]
                    - RatingAfter(cols, call.table, nrows - 1, parsed.loser))

\* two decided games have been applied, the second between teams whose
\* ratings the first had made unequal, and three teams sum to 4500
C13_Witness ==
    /\ call.fn = "build_elos"
    /\ DistinctSides(cols, call.table, nrows)
    /\ nrows = 2
    /\ parsed.tag = "outcome"
    /\ Cardinality(DOMAIN elos) = 3
    /\ \A t \in DOMAIN elos : elos[t] # Pts(START_ELO)
    /\ elos[parsed.winner] - RatingAfter(cols, call.table, 1, parsed.winner)
         \notin {0, Half, -Half}
    /\ SumOver(elos, DOMAIN elos) = Pts(START_ELO) * 3

\* pair i of ScorePairs is in the table cs and both its cells in the row r are
\* finite numbers
SuppliesIn(cs, r, i) ==
    /\ has(cs, {ScorePairs[i][1], ScorePairs[i][2]})
    /\ cell(r, ScorePairs[i][1]).kind = "num"
    /\ cell(r, ScorePairs[i][2]).kind = "num"

\* what the claim C14 says of the loop body run on the row r' of a table cs
\* of the Winner/Loser family
NeverRejected ==
    /\ parsed'.tag = "outcome"
    /\ pc' = "loop"
    /\ elos' = apply_outcome(elos, parsed')
    /\ {row'["winner/tie"], row'["loser/tie"]} \subseteq DOMAIN elos'
    /\ (\A i \in 1..3 : ~SuppliesIn(cols, row', i)) =>
          parsed' = Outcome(row'["winner/tie"], row'["loser/tie"], 1, 0)

\* C14: in a table with the Winner/tie and Loser/tie columns no row is
\* rejected: every row yields an Outcome and a rating update, and a row for
\* which no score pair supplies two parseable integers (pair columns absent,
\* or present but empty or no number in the row) yields
\* (winner, loser, 1, 0).
C14_WinnerLoserNeverRejected ==
    [][(IngestStep /\ WLCols \subseteq cols) => NeverRejected]_vars

\* C14, for the rows none of whose score cells is infinite.
C14_WinnerLoserNeverRejectedIfFinite ==
    [][(IngestStep /\ WLCols \subseteq cols
            /\ \A c \in cols \cap ScoreCols : row'[c].kind # "inf")
        => NeverRejected]_vars

\* a row of a Winner/Loser table with a text in a score cell has been given
\* to its winner by 1 to 0
C14_TextScoreCredited ==
    /\ pc = "loop"
    /\ nrows = 1
    /\ Pair3Cols \subseteq cols
    /\ WLCols \subseteq cols
    /\ row["pts"] = Txt
    /\ row["pts.1"] = Num(25)
    /\ parsed = Outcome(row["winner/tie"], row["loser/tie"], 1, 0)
    /\ row["winner/tie"] # row["loser/tie"]
    /\ elos[row["winner/tie"]] > elos[row["loser/tie"]]

====
